---- MODULE Spec2Model ----
(***************************************************************************)
(* Model of src/typingsInstaller/nodeTypingsInstaller.ts: the typings      *)
(* installer worker.  The worker is a single-threaded node process: every  *)
(* event handler ("message", "disconnect", "uncaughtException") runs to    *)
(* completion, so each handler is one action.  Sequential code inside a    *)
(* handler is written as operators over a machine record m that carries    *)
(* the fields the code reads and writes.                                   *)
(***************************************************************************)
EXTENDS Integers, Sequences, FiniteSets, TLC

VARIABLES
    pc,                         \* "boot" before line 233 runs, "listening" after line 246
    logFile,                    \* FileLog.logFile
    logLines,                   \* the lines appended to the log file by the last handler
    writeFailed,                \* history: some fs.appendFileSync call has thrown
    uncaughtHandler,            \* an "uncaughtException" listener is registered (line 235)
    delayedInitializationError, \* NodeTypingsInstaller.delayedInitializationError
    pendingAtListen,            \* history: delayedInitializationError was set when listen() ran
    refresh,                    \* history: how the start-up refresh command ended
    typesRegistry,              \* NodeTypingsInstaller.typesRegistry
    registryFile,               \* history: the registry file as the loader found it
    npmLocation,                \* the --npmLocation argument (line 231)
    npmPath,                    \* NodeTypingsInstaller.npmPath
    inbound,                    \* number of requests delivered to the "message" listener
    outbound,                   \* messages delivered to the peer by process.send, in order
    origin,                     \* history: origin[i] = index in inbound of the request
                                \* whose handling sent outbound[i]
    unknownSeen,                \* history: a request of an unknown kind was delivered
    peerUp,                     \* the peer still holds its end of the channel
    disconnected,               \* the "disconnect" listener has run
    exited,                     \* the process has terminated
    exitCode,                   \* its exit code
    lastStep,                   \* history: what start-up or the last "message" handler did
    twin                        \* a second process, started without a log file

vars == <<pc, logFile, logLines, writeFailed, uncaughtHandler,
          delayedInitializationError, pendingAtListen, refresh, typesRegistry,
          registryFile, npmLocation, npmPath, inbound, outbound, origin, unknownSeen, peerUp, disconnected, exited, exitCode,
          lastStep, twin>>

----------------------------------------------------------------------------
(* Bounds *)

MaxRequests == 2        \* requests delivered in one run
MaxWriteFailAt == 2     \* a failing log write is one of the first MaxWriteFailAt of a handler
MaxSendFailAt == 1      \* a throwing process.send comes after at most MaxSendFailAt that return

(* Values *)

Undefined == "undefined"
LogPath   == "ti.log"
NoFail    == MaxWriteFailAt + 1   \* write budget of a handler in which no log write fails
NoSendFail == MaxSendFailAt + 1  \* send budget of a handler in which process.send returns

NewLine == "NL"         \* sys.newLine, and a line break inside captured output
Indent4 == "    "

Packages  == {"pkgA", "pkgB"}
FileNames == {<<"a", "b", "file.ts">>}
\* The directories that hold a package.json, as host.fileExists reports them
FsLayouts == {{}, {<<>>, <<"a", "b">>}}
NoPath    == <<"undefined">>      \* an absent path (undefined)
RootPaths == {NoPath, <<"c">>}
NpmLocations == {NoPath}        \* values of --npmLocation; NoPath when it is not passed
Quote == "\""
Space == " "
Separator == "/"
Argv0 == <<Separator, "usr", Separator, "node">>    \* process.argv[0]

KnownKinds == {"discover", "closeProject", "typesRegistry", "installPackage", "inspectValue"}

EventInitializationFailed == "event::initializationFailed"
EventTypesRegistry        == "event::typesRegistry"
ActionPackageInstalled    == "action::packageInstalled"
ActionValueInspected      == "action::valueInspected"
ActionSet                 == "action::set"
ActionProjectClosed       == "action::closeProject"

NoRootMessage == <<"Could not determine a project root path.">>
ProjectName   == "proj"

\* Captured output of the external command: a sequence of text and line-break tokens.
Outputs  == {<<"t1", NewLine, "t2", NewLine, "t3">>}
NoOutput == <<"undefined">>     \* error.stdout / error.stderr when nothing was captured

\* The ways nodeExecFileSync can end.  A spawn error carries no captured output.
ExecOutcomes ==
    {[kind |-> "exit0", stdout |-> o, stderr |-> <<>>] : o \in Outputs}
    \cup {[kind |-> "nonzero", stdout |-> <<>>, stderr |-> o] : o \in Outputs}
    \cup {[kind |-> "spawnError", stdout |-> NoOutput, stderr |-> NoOutput]}

\* The on-disk registry file.
EmptyMap == [k \in {} |-> <<>>]
LodashMap == [k \in {"lodash"} |-> [latest |-> "4.0"]]
\* at start-up; LoaderFiles below has the other contents
RegistryFiles ==
    {[state |-> "missing", entries |-> EmptyMap], [state |-> "json", entries |-> LodashMap]}
NoFile == [state |-> "unread", entries |-> EmptyMap]

\* Registry files for the loader alone.  state is what the file holds:
\* "missing" no file, "malformed" text that is not JSON, "null" the JSON
\* value null, "noEntries" a JSON object without the entries property,
\* "json" an object whose entries property is the mapping in entries.
RegistryKeys == {"lodash", "react", "jquery"}
PropertyBags == {[latest |-> "4.0"], [latest |-> "5.0"]}
RegistryMaps == UNION {[keys -> PropertyBags] : keys \in SUBSET RegistryKeys}
LoaderFiles ==
    {[state |-> st, entries |-> EmptyMap] : st \in {"missing", "malformed", "null", "noEntries"}}
    \cup {[state |-> "json", entries |-> e] : e \in RegistryMaps}

NoError == [kind |-> Undefined, message |-> <<>>]  \* delayedInitializationError === undefined
NoThrow == "none"                                       \* no exception is propagating

----------------------------------------------------------------------------
(* FileLog, lines 12-29 *)

isEnabled(m) == m.logFile # Undefined

\* writeLine whose catch block leaves logFile set
writeLine_keepLogFile(m, text) ==
    IF m.logFile = Undefined THEN m
    ELSE IF m.budget = 0
         THEN [m EXCEPT !.writeFailed = TRUE]
         ELSE [m EXCEPT !.logLines = Append(@, text),
                        !.budget = IF @ = NoFail THEN NoFail ELSE @ - 1]

\* fs.appendFileSync throws when the handler's write budget is used up.
writeLine(m, text) ==
    IF m.logFile = Undefined THEN m
    ELSE IF m.budget = 0
         THEN [m EXCEPT !.logFile = Undefined, !.writeFailed = TRUE]
         ELSE [m EXCEPT !.logLines = Append(@, text),
                        !.budget = IF @ = NoFail THEN NoFail ELSE @ - 1]

----------------------------------------------------------------------------
(* indent, lines 248-250: str.replace with a non-global pattern rewrites  *)
(* the first line break only.                                             *)

RECURSIVE replaceFirst(_, _, _)
replaceFirst(str, pat, by) ==
    IF str = <<>> THEN <<>>
    ELSE IF Head(str) = pat THEN by \o Tail(str)
    ELSE <<Head(str)>> \o replaceFirst(Tail(str), pat, by)

\* str.replace on undefined is a TypeError
indentThrows(str) == str = NoOutput

indent(newline, str) == <<newline, Indent4>> \o replaceFirst(str, NewLine, <<newline, Indent4>>)

----------------------------------------------------------------------------
(* process.send, line 181: the message reaches the peer while the peer    *)
(* holds the channel; the call is recorded in m.sent either way.          *)

(* The call throws when the handler's send budget is used up.             *)
processSend(m, msg) ==
    IF m.sendBudget = 0
    THEN [m EXCEPT !.sent = Append(@, msg), !.thrown = "SendError"]
    ELSE [m EXCEPT !.sent = Append(@, msg),
                   !.outbound = IF m.peerUp THEN Append(@, msg) ELSE @,
                   !.origin = IF m.peerUp THEN Append(@, m.reqIndex) ELSE @,
                   !.sendBudget = IF @ = NoSendFail THEN NoSendFail ELSE @ - 1]

(* sendResponse, lines 177-185 *)
sendResponse(m, response) ==
    LET m1 == IF isEnabled(m) THEN writeLine(m, <<"Sending response:", response.kind>>) ELSE m
        m2 == processSend(m1, response)
    IN  IF m2.thrown # NoThrow THEN m2
        ELSE IF isEnabled(m2) THEN writeLine(m2, <<"Response has been sent.">>) ELSE m2

----------------------------------------------------------------------------
(* The blocking child_process.execFileSync call, line 205.  run.outcome   *)
(* is how the command ends; run.teardown says the peer drops the channel  *)
(* while the worker is blocked.                                           *)

nodeExecFileSync(m, file, args, cwd, run) ==
    [m EXCEPT !.execCalls = Append(@, [file |-> file, args |-> args, cwd |-> cwd]),
              !.peerUp = @ /\ ~run.teardown]

\* a return statement of execFileSyncAndLog; m.returned records the value
returns(m, failed) == [m |-> [m EXCEPT !.returned = Append(@, failed)], failed |-> failed]

\* execFileSyncAndLog whose catch block returns false
execFileSyncAndLog_catchReturnsFalse(m, file, args, cwd, run) ==
    LET m1 == IF isEnabled(m) THEN writeLine(m, <<"Exec:">> \o file \o args) ELSE m
        m2 == nodeExecFileSync(m1, file, args, cwd, run)
        stdout == run.outcome.stdout
        stderr == run.outcome.stderr
    IN  IF run.outcome.kind = "exit0"
        THEN returns(IF isEnabled(m2)
                     THEN writeLine(m2, <<"Succeeded. stdout:">> \o indent(NewLine, stdout))
                     ELSE m2,
                     FALSE)
        ELSE IF indentThrows(stdout) \/ indentThrows(stderr)
             THEN [m |-> [m2 EXCEPT !.thrown = "TypeError"], failed |-> TRUE]
             ELSE returns(writeLine(m2, <<"Failed. stdout:">> \o indent(NewLine, stdout)
                                        \o <<NewLine, "stderr:">> \o indent(NewLine, stderr)),
                          FALSE)

(* execFileSyncAndLog, lines 200-216.  Result: the machine and the        *)
(* returned boolean; m.thrown is set when the call throws instead.        *)
execFileSyncAndLog(m, file, args, cwd, run) ==
    LET m1 == IF isEnabled(m) THEN writeLine(m, <<"Exec:">> \o file \o args) ELSE m
        m2 == nodeExecFileSync(m1, file, args, cwd, run)
        stdout == run.outcome.stdout
        stderr == run.outcome.stderr
    IN  IF run.outcome.kind = "exit0"
        THEN returns(IF isEnabled(m2)
                     THEN writeLine(m2, <<"Succeeded. stdout:">> \o indent(NewLine, stdout))
                     ELSE m2,
                     FALSE)
        ELSE IF indentThrows(stdout) \/ indentThrows(stderr)
             THEN [m |-> [m2 EXCEPT !.thrown = "TypeError"], failed |-> TRUE]
             ELSE returns(writeLine(m2, <<"Failed. stdout:">> \o indent(NewLine, stdout)
                                        \o <<NewLine, "stderr:">> \o indent(NewLine, stderr)),
                          TRUE)

----------------------------------------------------------------------------
(* installNpmPackages: one package-manager invocation for the whole batch *)
installNpmPackages(m, npm, packageNames, cwd, run) ==
    LET r == execFileSyncAndLog(m, npm, <<"install", "--ignore-scripts">> \o packageNames, cwd, run)
    IN  [m |-> r.m, hasError |-> r.failed]

(* installWorker, lines 187-197.  onRequestCompleted is the completion   *)
(* callback, given as the response it sends for each value of success.    *)
installWorker(m, requestId, packageNames, cwd, onRequestCompleted, run) ==
    LET m1 == IF isEnabled(m) THEN writeLine(m, <<"#", requestId, "with arguments">> \o packageNames) ELSE m
        r  == installNpmPackages(m1, m1.npmPath, packageNames, cwd, run)
        m2 == IF isEnabled(r.m) THEN writeLine(r.m, <<"npm install #", requestId, "took">>) ELSE r.m
    IN  IF r.m.thrown # NoThrow THEN r.m ELSE sendResponse(m2, onRequestCompleted[~r.hasError])

----------------------------------------------------------------------------
(* getDirectoryOfPackageJson, lines 219-225 *)

getDirectoryPath(path) == IF path = <<>> THEN <<>> ELSE SubSeq(path, 1, Len(path) - 1)

RECURSIVE forEachAncestorDirectory(_, _)
forEachAncestorDirectory(directory, fs) ==
    IF directory \in fs THEN directory
    ELSE IF getDirectoryPath(directory) = directory THEN NoPath
    ELSE forEachAncestorDirectory(getDirectoryPath(directory), fs)

\* the walk begun one directory too high
getDirectoryOfPackageJson_fromParent(fileName, fs) ==
    forEachAncestorDirectory(getDirectoryPath(getDirectoryPath(fileName)), fs)

getDirectoryOfPackageJson(fileName, fs) == forEachAncestorDirectory(getDirectoryPath(fileName), fs)

----------------------------------------------------------------------------
(* Requests *)

Request(kind, fileName, packageName, projectRootPath) ==
    [kind |-> kind, fileName |-> fileName, packageName |-> packageName,
     projectName |-> ProjectName, projectRootPath |-> projectRootPath]

PlainRequest(kind) == Request(kind, NoPath, "", NoPath)

\* What the environment does while one request is handled
Env(fs, run) == [fs |-> fs, run |-> run]
Runs   == [outcome : ExecOutcomes, teardown : BOOLEAN]
NoRun  == [outcome |-> [kind |-> "none", stdout |-> NoOutput, stderr |-> NoOutput], teardown |-> FALSE]

(* the installPackage completion callback, lines 154-158 *)
packageInstalled(packageName, projectName) ==
    [ok \in BOOLEAN |->
        [kind |-> ActionPackageInstalled, projectName |-> projectName, success |-> ok,
         message |-> IF ok THEN <<"Package", packageName, "installed.">>
                           ELSE <<"There was an error installing", packageName, ".">>]]

\* the installPackage case without the test of cwd: the install runs in the
\* directory of the file when no project root is known
installPackage_noRootTest(m, req, env) ==
    LET found == getDirectoryOfPackageJson(req.fileName, env.fs)
        cwd   == IF found # NoPath THEN found
                 ELSE IF req.projectRootPath # NoPath THEN req.projectRootPath
                 ELSE getDirectoryPath(req.fileName)
        onRequestCompleted == packageInstalled(req.packageName, req.projectName)
    IN  installWorker(m, "-1", <<req.packageName>>, cwd, onRequestCompleted,
                      IF env.run = NoRun
                      THEN [outcome |-> CHOOSE o \in ExecOutcomes : o.kind = "nonzero",
                            teardown |-> FALSE]
                      ELSE env.run)

\* the installPackage case with the two sources of cwd tried in the other
\* order
installPackage_rootFirst(m, req, env) ==
    LET found == getDirectoryOfPackageJson(req.fileName, env.fs)
        cwd   == IF req.projectRootPath # NoPath THEN req.projectRootPath ELSE found
        onRequestCompleted == packageInstalled(req.packageName, req.projectName)
    IN  IF cwd # NoPath
        THEN installWorker(m, "-1", <<req.packageName>>, cwd, onRequestCompleted, env.run)
        ELSE sendResponse(m, [kind |-> ActionPackageInstalled, projectName |-> req.projectName,
                              success |-> FALSE, message |-> NoRootMessage])

(* the installPackage case, lines 150-165 *)
installPackage(m, req, env) ==
    LET found == getDirectoryOfPackageJson(req.fileName, env.fs)
        cwd   == IF found # NoPath THEN found ELSE req.projectRootPath
        onRequestCompleted == packageInstalled(req.packageName, req.projectName)
    IN  IF cwd # NoPath
        THEN installWorker(m, "-1", <<req.packageName>>, cwd, onRequestCompleted, env.run)
        ELSE sendResponse(m, [kind |-> ActionPackageInstalled, projectName |-> req.projectName,
                              success |-> FALSE, message |-> NoRootMessage])

(* The collaborators of the base class and of the compiler: each relays   *)
(* one response, and the exhaustiveness assertion throws.                 *)
install(m, req)      == sendResponse(m, [kind |-> ActionSet, projectName |-> req.projectName])
closeProject(m, req) == sendResponse(m, [kind |-> ActionProjectClosed, projectName |-> req.projectName])
inspectModule(fileNameToRequire) == "valueInfo"
assertNever(m)       == [m EXCEPT !.thrown = "AssertionError"]

\* the switch with a typesRegistry case that hands its map over and keeps
\* an empty one
dispatch_drainRegistry(m, req, env) ==
    CASE req.kind = "discover"       -> install(m, req)
      [] req.kind = "closeProject"   -> closeProject(m, req)
      [] req.kind = "typesRegistry"  ->
            [sendResponse(m, [kind |-> EventTypesRegistry, typesRegistry |-> m.typesRegistry])
                EXCEPT !.typesRegistry = EmptyMap]
      [] req.kind = "installPackage" -> installPackage(m, req, env)
      [] req.kind = "inspectValue"   ->
            sendResponse(m, [kind |-> ActionValueInspected, result |-> inspectModule(req.fileName)])
      [] OTHER                       -> assertNever(m)

(* the cases of the switch, lines 134-173 *)
dispatch(m, req, env) ==
    CASE req.kind = "discover"       -> install(m, req)
      [] req.kind = "closeProject"   -> closeProject(m, req)
      [] req.kind = "typesRegistry"  ->
            sendResponse(m, [kind |-> EventTypesRegistry, typesRegistry |-> m.typesRegistry])
      [] req.kind = "installPackage" -> installPackage(m, req, env)
      [] req.kind = "inspectValue"   ->
            sendResponse(m, [kind |-> ActionValueInspected, result |-> inspectModule(req.fileName)])
      [] OTHER                       -> assertNever(m)

\* the listener without line 132: the pending failure is never cleared
onMessage_keepPending(m, req, env) ==
    LET m1 == IF m.delayedInitializationError # NoError
              THEN sendResponse(m, m.delayedInitializationError)
              ELSE m
    IN  dispatch(m1, req, env)

\* the listener reporting the pending failure after the request is handled
onMessage_lateNotice(m, req, env) ==
    LET m1 == dispatch(m, req, env)
    IN  IF m.delayedInitializationError # NoError /\ m1.thrown = NoThrow
        THEN [sendResponse(m1, m.delayedInitializationError)
                  EXCEPT !.delayedInitializationError = NoError]
        ELSE m1

\* the listener clearing the pending failure before it is sent
onMessage_clearFirst(m, req, env) ==
    LET m1 == IF m.delayedInitializationError # NoError
              THEN sendResponse([m EXCEPT !.delayedInitializationError = NoError],
                                m.delayedInitializationError)
              ELSE m
    IN  IF m1.thrown # NoThrow THEN m1 ELSE dispatch(m1, req, env)

(* the "message" listener, lines 128-174 *)
onMessage(m, req, env) ==
    LET sending == sendResponse(m, m.delayedInitializationError)
        m1 == IF m.delayedInitializationError = NoError THEN m
              ELSE IF sending.thrown # NoThrow THEN sending
              ELSE [sending EXCEPT !.delayedInitializationError = NoError]
    IN  IF m1.thrown # NoThrow THEN m1 ELSE dispatch(m1, req, env)

----------------------------------------------------------------------------
(* Start-up: lines 227-246 and the constructor, lines 82-125 *)

stringContains(str, ch) == \E i \in 1..Len(str) : str[i] = ch

\* path.basename, path.dirname and path.join on a path written as a sequence
\* of names, separators, spaces and quotes
lastSeparator(path) ==
    IF stringContains(path, Separator)
    THEN CHOOSE i \in 1..Len(path) :
            path[i] = Separator /\ \A j \in (i + 1)..Len(path) : path[j] # Separator
    ELSE 0
basename(path) == SubSeq(path, lastSeparator(path) + 1, Len(path))
dirname(path) ==
    IF lastSeparator(path) = 0 THEN <<".">>
    ELSE IF lastSeparator(path) = 1 THEN <<Separator>>
    ELSE SubSeq(path, 1, lastSeparator(path) - 1)
join(dir, name) ==
    IF dir = <<".">> THEN <<name>>
    ELSE IF dir = <<Separator>> THEN <<Separator, name>>
    ELSE dir \o <<Separator, name>>

(* getDefaultNPMLocation, lines 32-39 *)
getDefaultNPMLocation(processName) ==
    IF basename(processName) # <<>> /\ Head(basename(processName)) = "node"
    THEN <<Quote>> \o join(dirname(processName), "npm") \o <<Quote>>
    ELSE <<"npm">>

\* lines 90-95 without the test of the first character
resolveNpmPath_noQuoteTest(location, processName) ==
    LET path == IF location # NoPath THEN location ELSE getDefaultNPMLocation(processName)
    IN  IF stringContains(path, Space)
        THEN <<Quote>> \o path \o <<Quote>>
        ELSE path

(* lines 90-95 *)
resolveNpmPath(location, processName) ==
    LET path == IF location # NoPath THEN location ELSE getDefaultNPMLocation(processName)
    IN  IF stringContains(path, Space) /\ (path = <<>> \/ Head(path) # Quote)
        THEN <<Quote>> \o path \o <<Quote>>
        ELSE path

(* createMapFromTemplate(content.entries), line 54: the keys of the       *)
(* template are copied; a template that is undefined has no keys.         *)
createMapFromTemplate(file) == IF file.state = "noEntries" THEN EmptyMap ELSE file.entries

\* JSON.parse throws on text that is not JSON; content.entries throws when
\* content is null (lines 53-54)
parseThrows(file) == file.state \in {"malformed", "null"}

(* loadTypesRegistryFile, lines 45-62 *)
loadTypesRegistryFile(m, file) ==
    CASE file.state = "missing" ->
            [(IF isEnabled(m) THEN writeLine(m, <<"Types registry file does not exist">>) ELSE m)
                EXCEPT !.typesRegistry = EmptyMap]
      [] parseThrows(file) ->
            [(IF isEnabled(m) THEN writeLine(m, <<"Error when loading types registry file">>) ELSE m)
                EXCEPT !.typesRegistry = EmptyMap]
      [] OTHER -> [m EXCEPT !.typesRegistry = createMapFromTemplate(file)]

(* lines 104-122: the refresh of the types-registry package *)
updateTypesRegistryPackage(m, run) ==
    LET m1 == IF isEnabled(m) THEN writeLine(m, <<"Updating types-registry npm package...">>) ELSE m
        r  == execFileSyncAndLog(m1, m1.npmPath,
                                 <<"install", "--ignore-scripts", "types-registry@latest">>,
                                 <<"globalTypingsCache">>, run)
        caught == [r.m EXCEPT !.thrown = NoThrow]
        m3 == IF isEnabled(caught)
              THEN writeLine(caught, <<"Error updating types-registry package:", r.m.thrown>>)
              ELSE caught
    IN  IF r.m.thrown = NoThrow
        THEN IF isEnabled(r.m) THEN writeLine(r.m, <<"Updated types-registry npm package">>) ELSE r.m
        ELSE [m3 EXCEPT !.delayedInitializationError =
                            [kind |-> EventInitializationFailed, message |-> <<r.m.thrown>>]]

\* the constructor with the registry load inside the try block, after the
\* refresh
construct_skipLoadOnFailure(m, location, run, file) ==
    LET m1 == [m EXCEPT !.npmPath = resolveNpmPath(location, Argv0)]
        m2 == IF isEnabled(m1)
              THEN writeLine(writeLine(m1, <<"Process id">>), <<"NPM location:">> \o m1.npmPath)
              ELSE m1
        m3 == updateTypesRegistryPackage(m2, run)
    IN  IF m3.delayedInitializationError # NoError
        THEN [m3 EXCEPT !.typesRegistry = EmptyMap]
        ELSE loadTypesRegistryFile(m3, file)

(* the constructor, lines 82-125 *)
construct(m, location, run, file) ==
    LET m1 == [m EXCEPT !.npmPath = resolveNpmPath(location, Argv0)]
        m2 == IF isEnabled(m1)
              THEN writeLine(writeLine(m1, <<"Process id">>), <<"NPM location:">> \o m1.npmPath)
              ELSE m1
    IN  loadTypesRegistryFile(updateTypesRegistryPackage(m2, run), file)

----------------------------------------------------------------------------
(* The state machine *)

Budgets == (0 .. (MaxWriteFailAt - 1)) \cup {NoFail}

\* The machine a handler starts from; budget is the number of log writes
\* that succeed before one fails.
Machine(budget) ==
    [logFile |-> logFile, logLines |-> <<>>, budget |-> budget, writeFailed |-> writeFailed,
     npmPath |-> npmPath, delayedInitializationError |-> delayedInitializationError,
     typesRegistry |-> typesRegistry, outbound |-> outbound, origin |-> origin,
     peerUp |-> peerUp, execCalls |-> <<>>, returned |-> <<>>, sent |-> <<>>,
     thrown |-> NoThrow, reqIndex |-> inbound + 1, sendBudget |-> NoSendFail]

NoRequest == PlainRequest("none")

Step(handler, req, env, m) ==
    [handler |-> handler, req |-> req, fs |-> env.fs, run |-> env.run,
     execCalls |-> m.execCalls, returned |-> m.returned, sent |-> m.sent,
     thrown |-> m.thrown,
     pendingBefore |-> delayedInitializationError # NoError]

\* An exception that leaves a handler reaches the "uncaughtException"
\* listener of lines 235-237 when there is one; without a listener the
\* runtime ends the process.
uncaught(m) ==
    IF m.thrown = NoThrow THEN m
    ELSE IF uncaughtHandler THEN writeLine(m, <<"Unhandled exception:", m.thrown>>)
    ELSE m

Commit(m) ==
    /\ logFile' = m.logFile
    /\ logLines' = m.logLines
    /\ writeFailed' = m.writeFailed
    /\ npmPath' = m.npmPath
    /\ delayedInitializationError' = m.delayedInitializationError
    /\ typesRegistry' = m.typesRegistry
    /\ outbound' = m.outbound
    /\ origin' = m.origin
    /\ peerUp' = m.peerUp

\* The second process before its constructor runs
NoTwin ==
    [npmPath |-> <<>>, delayedInitializationError |-> NoError, typesRegistry |-> EmptyMap,
     outbound |-> <<>>, origin |-> <<>>, exited |-> FALSE, exitCode |-> 0]

Init ==
    /\ twin = NoTwin
    /\ pc = "boot"
    /\ logFile \in {LogPath, Undefined}
    /\ logLines = <<>>
    /\ writeFailed = FALSE
    /\ uncaughtHandler = FALSE
    /\ delayedInitializationError = NoError
    /\ pendingAtListen = FALSE
    /\ refresh = "none"
    /\ typesRegistry = EmptyMap
    /\ registryFile = NoFile
    /\ npmLocation \in NpmLocations
    /\ npmPath = <<>>
    /\ inbound = 0
    /\ outbound = <<>>
    /\ origin = <<>>
    /\ unknownSeen = FALSE
    /\ peerUp = TRUE
    /\ disconnected = FALSE
    /\ exited = FALSE
    /\ exitCode = 0
    /\ lastStep = [handler |-> "none", req |-> NoRequest, fs |-> {}, run |-> NoRun,
                   execCalls |-> <<>>, returned |-> <<>>, sent |-> <<>>,
                   thrown |-> NoThrow, pendingBefore |-> FALSE]

\* Nothing is sent and no event is dispatched during start-up, so a peer that
\* drops the channel then is seen as PeerTearDown right after it.
StartupRuns == {run \in Runs : ~run.teardown}

(* lines 233-246 *)
Boot(run, file) ==
    /\ pc = "boot"
    /\ \E budget \in IF logFile = Undefined THEN {NoFail} ELSE Budgets :
          LET m == construct(Machine(budget), npmLocation, run, file)
          IN  /\ Commit(m)
              /\ registryFile' = file
              /\ pendingAtListen' = (m.delayedInitializationError # NoError)
              /\ refresh' = run.outcome.kind
              /\ lastStep' = Step("startup", NoRequest, Env({}, run), m)
    /\ uncaughtHandler' = (logFile # Undefined)
    /\ pc' = "listening"
    /\ UNCHANGED <<npmLocation, inbound, unknownSeen, disconnected, exited, exitCode>>

Startup == \E run \in StartupRuns, file \in RegistryFiles : Boot(run, file) /\ UNCHANGED twin

\* One request is delivered to the "message" listener and handled to the
\* end; sendBudgets are the numbers of process.send calls that may return
\* before one throws.
Handle(req, env, sendBudgets) ==
    /\ pc = "listening"
    /\ ~exited
    /\ peerUp
    /\ inbound < MaxRequests
    /\ \E budget \in (IF logFile = Undefined THEN {NoFail} ELSE Budgets),
          sendBudget \in sendBudgets :
          LET h == onMessage([Machine(budget) EXCEPT !.sendBudget = sendBudget], req, env)
              m == uncaught(h)
          IN  /\ Commit(m)
              /\ lastStep' = Step("message", req, env, h)
              /\ exited' = (h.thrown # NoThrow /\ ~uncaughtHandler)
              /\ exitCode' = IF h.thrown # NoThrow /\ ~uncaughtHandler THEN 1 ELSE exitCode
    /\ inbound' = inbound + 1
    /\ unknownSeen' = (unknownSeen \/ req.kind \notin KnownKinds)
    /\ UNCHANGED <<pc, uncaughtHandler, pendingAtListen, refresh, registryFile, npmLocation,
                   disconnected>>

\* The peer reads every message: process.send returns.
Deliver(req, env) == Handle(req, env, {NoSendFail}) /\ UNCHANGED twin

NoEnv == Env({}, NoRun)

Discover      == Deliver(PlainRequest("discover"), NoEnv)
CloseProject  == Deliver(PlainRequest("closeProject"), NoEnv)
TypesRegistry == Deliver(PlainRequest("typesRegistry"), NoEnv)
InspectValue  == Deliver(PlainRequest("inspectValue"), NoEnv)
UnknownKind   == Deliver(PlainRequest("unknown"), NoEnv)

InstallPackage ==
    \E fileName \in FileNames, packageName \in Packages, root \in RootPaths, fs \in FsLayouts :
        LET req == Request("installPackage", fileName, packageName, root)
            resolved == getDirectoryOfPackageJson(fileName, fs) # NoPath \/ root # NoPath
        IN  \E run \in IF resolved THEN Runs ELSE {NoRun} : Deliver(req, Env(fs, run))

\* The peer drops the channel between two events.
PeerTearDown ==
    /\ pc = "listening"
    /\ peerUp
    /\ ~exited
    /\ peerUp' = FALSE
    /\ UNCHANGED <<pc, logFile, logLines, writeFailed, uncaughtHandler,
                   delayedInitializationError, pendingAtListen, refresh, typesRegistry,
                   registryFile, npmLocation, npmPath, inbound, outbound, origin,
                   unknownSeen, disconnected, exited, exitCode, lastStep, twin>>

\* the listener without the call of process.exit
exitOnDisconnect_noExit == [exited |-> FALSE, exitCode |-> 0]

(* the "disconnect" listener, lines 239-244 *)
exitOnDisconnect == [exited |-> TRUE, exitCode |-> 0]

Shutdown ==
    /\ pc = "listening"
    /\ ~exited
    /\ ~peerUp
    /\ \E budget \in IF logFile = Undefined THEN {NoFail} ELSE Budgets :
          LET m0 == Machine(budget)
              m  == IF isEnabled(m0)
                    THEN writeLine(m0, <<"Parent process has exited, shutting down...">>)
                    ELSE m0
          IN  Commit(m)
    /\ disconnected' = TRUE
    /\ exited' = exitOnDisconnect.exited
    /\ exitCode' = exitOnDisconnect.exitCode
    /\ UNCHANGED <<pc, uncaughtHandler, pendingAtListen, refresh, registryFile, npmLocation,
                   inbound, unknownSeen, lastStep>>

Disconnect == Shutdown /\ UNCHANGED twin

Next ==
    \/ Startup
    \/ Discover
    \/ CloseProject
    \/ TypesRegistry
    \/ InstallPackage
    \/ InspectValue
    \/ UnknownKind
    \/ PeerTearDown
    \/ Disconnect

Spec == Init /\ [][Next]_vars

----------------------------------------------------------------------------
(* The same process on a channel whose process.send can throw *)

SendBudgets == (0 .. MaxSendFailAt) \cup {NoSendFail}

FaultyDeliver ==
    \/ \E kind \in KnownKinds \ {"installPackage"} :
          Handle(PlainRequest(kind), NoEnv, SendBudgets) /\ UNCHANGED twin
    \/ \E packageName \in Packages, root \in RootPaths, run \in Runs :
          Handle(Request("installPackage", <<"a", "b", "file.ts">>, packageName, root),
                 Env({}, IF root # NoPath THEN run ELSE NoRun), SendBudgets)
          /\ UNCHANGED twin

NextFault ==
    \/ Startup
    \/ FaultyDeliver
    \/ PeerTearDown
    \/ Disconnect

SpecFault == Init /\ [][NextFault]_vars

----------------------------------------------------------------------------
(* Two processes side by side: the one of the variables, with the log     *)
(* file of Init and log writes that may fail, and twin, without a log     *)
(* file.  Both get the same start-up outcome, the same requests and the   *)
(* same outcomes of the external commands.                                *)

TwinMachine ==
    [Machine(NoFail) EXCEPT !.logFile = Undefined, !.writeFailed = FALSE,
                            !.npmPath = twin.npmPath,
                            !.delayedInitializationError = twin.delayedInitializationError,
                            !.typesRegistry = twin.typesRegistry,
                            !.outbound = twin.outbound, !.origin = twin.origin]

\* Without a log file line 233 registers no "uncaughtException" listener:
\* an exception that leaves a handler ends the process.
TwinAfter(h) ==
    [npmPath |-> h.npmPath, delayedInitializationError |-> h.delayedInitializationError,
     typesRegistry |-> h.typesRegistry, outbound |-> h.outbound, origin |-> h.origin,
     exited |-> h.thrown # NoThrow, exitCode |-> IF h.thrown # NoThrow THEN 1 ELSE 0]

TwinStartup ==
    \E run \in StartupRuns, file \in RegistryFiles :
        /\ Boot(run, file)
        /\ twin' = TwinAfter(construct(TwinMachine, npmLocation, run, file))

TwinHandle(req, env) ==
    /\ Handle(req, env, {NoSendFail})
    /\ twin' = IF twin.exited THEN twin ELSE TwinAfter(onMessage(TwinMachine, req, env))

TwinDeliver ==
    \/ \E kind \in (KnownKinds \ {"installPackage"}) \cup {"unknown"} :
          TwinHandle(PlainRequest(kind), NoEnv)
    \/ \E fileName \in FileNames, packageName \in Packages, root \in RootPaths,
          fs \in FsLayouts :
          LET req == Request("installPackage", fileName, packageName, root)
              resolved == getDirectoryOfPackageJson(fileName, fs) # NoPath \/ root # NoPath
          IN  \E run \in IF resolved THEN Runs ELSE {NoRun} : TwinHandle(req, Env(fs, run))

TwinDisconnect ==
    /\ Shutdown
    /\ twin' = IF twin.exited THEN twin
               ELSE [twin EXCEPT !.exited = exitOnDisconnect.exited,
                                 !.exitCode = exitOnDisconnect.exitCode]

NextTwin ==
    \/ TwinStartup
    \/ TwinDeliver
    \/ PeerTearDown
    \/ TwinDisconnect

SpecTwin == Init /\ [][NextTwin]_vars

----------------------------------------------------------------------------
(* The registry loader on its own: one call of loadTypesRegistryFile      *)
(* (line 124) on every file of LoaderFiles.                               *)

\* The fields and histories as they are before the constructor runs
Fresh ==
    /\ twin = NoTwin
    /\ logLines = <<>>
    /\ writeFailed = FALSE
    /\ uncaughtHandler = FALSE
    /\ delayedInitializationError = NoError
    /\ pendingAtListen = FALSE
    /\ refresh = "none"
    /\ typesRegistry = EmptyMap
    /\ npmPath = <<>>
    /\ inbound = 0
    /\ outbound = <<>>
    /\ origin = <<>>
    /\ unknownSeen = FALSE
    /\ peerUp = TRUE
    /\ disconnected = FALSE
    /\ exited = FALSE
    /\ exitCode = 0
    /\ lastStep = [handler |-> "none", req |-> NoRequest, fs |-> {}, run |-> NoRun,
                   execCalls |-> <<>>, returned |-> <<>>, sent |-> <<>>,
                   thrown |-> NoThrow, pendingBefore |-> FALSE]

InitLoad ==
    /\ Fresh
    /\ pc = "load"
    /\ logFile \in {LogPath, Undefined}
    /\ registryFile \in LoaderFiles
    /\ npmLocation = NoPath

LoadRegistry ==
    /\ pc = "load"
    /\ \E budget \in IF logFile = Undefined THEN {NoFail} ELSE Budgets :
          LET m == loadTypesRegistryFile(Machine(budget), registryFile)
          IN  /\ Commit(m)
              /\ lastStep' = Step("load", NoRequest, NoEnv, m)
    /\ pc' = "loaded"
    /\ UNCHANGED <<uncaughtHandler, pendingAtListen, refresh, registryFile, npmLocation,
                   inbound, unknownSeen, disconnected, exited, exitCode, twin>>

SpecLoad == InitLoad /\ [][LoadRegistry]_vars

----------------------------------------------------------------------------
(* The choice of the package-manager path on its own: lines 90-95 on every *)
(* --npmLocation of at most MaxPathLen characters, and on no --npmLocation *)
(* for each process name.                                                  *)

MaxPathLen == 4
PathChars == {"n", Space, Quote}
RECURSIVE Strings(_)
Strings(n) == IF n = 0 THEN {<<>>}
              ELSE Strings(n - 1) \cup {Append(str, c) : str \in Strings(n - 1), c \in PathChars}
ProcessNames == {Argv0, <<Separator, "my", Space, "dir", Separator, "node">>, <<"node">>,
                 <<Separator, "tsserver">>}

InitQuote ==
    /\ Fresh
    /\ pc = "quote"
    /\ logFile = Undefined
    /\ registryFile = NoFile
    /\ npmLocation \in Strings(MaxPathLen) \cup {NoPath}

QuoteNpmPath ==
    /\ pc = "quote"
    /\ \E processName \in ProcessNames : npmPath' = resolveNpmPath(npmLocation, processName)
    /\ pc' = "quoted"
    /\ UNCHANGED <<logFile, logLines, writeFailed, uncaughtHandler, delayedInitializationError,
                   pendingAtListen, refresh, typesRegistry, registryFile, npmLocation,
                   inbound, outbound, origin, unknownSeen, peerUp, disconnected, exited,
                   exitCode, lastStep, twin>>

SpecQuote == InitQuote /\ [][QuoteNpmPath]_vars

----------------------------------------------------------------------------
(* getDirectoryOfPackageJson on its own: every file at most MaxDepth      *)
(* directories deep, with package.json in at most MaxManifests            *)
(* directories.                                                           *)

MaxDepth == 3
MaxManifests == 2
DirNames == {"a", "b"}
RECURSIVE Directories(_)
Directories(n) == IF n = 0 THEN {<<>>}
                  ELSE Directories(n - 1) \cup
                       {Append(d, name) : d \in Directories(n - 1), name \in DirNames}
DeepFileNames == {Append(d, "file.ts") : d \in Directories(MaxDepth)}
RECURSIVE Layouts(_)
Layouts(n) == IF n = 0 THEN {{}}
              ELSE Layouts(n - 1) \cup
                   {fs \cup {d} : fs \in Layouts(n - 1), d \in Directories(MaxDepth)}
ManifestLayouts == Layouts(MaxManifests)

InitResolve ==
    /\ Fresh
    /\ pc = "resolve"
    /\ logFile = Undefined
    /\ registryFile = NoFile
    /\ npmLocation = NoPath

ResolveRoot ==
    /\ pc = "resolve"
    /\ \E fileName \in DeepFileNames, fs \in ManifestLayouts :
          LET m == [Machine(NoFail) EXCEPT
                        !.returned = <<getDirectoryOfPackageJson(fileName, fs)>>]
          IN  lastStep' = Step("resolve", Request("none", fileName, "", NoPath),
                               Env(fs, NoRun), m)
    /\ pc' = "resolved"
    /\ UNCHANGED <<logFile, logLines, writeFailed, uncaughtHandler,
                   delayedInitializationError, pendingAtListen, refresh, typesRegistry,
                   registryFile, npmLocation, npmPath, inbound, outbound, origin,
                   unknownSeen, peerUp, disconnected, exited, exitCode, twin>>

SpecResolve == InitResolve /\ [][ResolveRoot]_vars

----------------------------------------------------------------------------
(* Properties *)

IsNotice(msg) == msg.kind = EventInitializationFailed

\* the responses among msgs that answer a request
Replies(msgs) == SelectSeq(msgs, LAMBDA r : ~IsNotice(r))

\* the directories above a file, up to the root
Ancestors(fileName) == {SubSeq(fileName, 1, k) : k \in 0 .. (Len(fileName) - 1)}

Contains(line, tokens) == \A i \in 1..Len(tokens) : \E j \in 1..Len(line) : line[j] = tokens[i]

LastWasMessage == lastStep.handler = "message"

\* C1: while the peer holds the channel and every request so far is of a
\* known kind, the number of messages on the outbound channel is the number
\* of requests, plus one when a failure was pending at the start of listening
\* and the first request has arrived.
C1_ResponseCount ==
    (pc = "listening" /\ peerUp /\ ~unknownSeen)
        => Len(outbound) = inbound + (IF pendingAtListen /\ inbound >= 1 THEN 1 ELSE 0)

\* C2: the initializationFailed message occurs on the outbound channel only
\* as its first message, it is there as soon as a failure was pending and a
\* request has been handled, and once listening has begun a cleared pending
\* value stays cleared.
C2_NoticeFirstAndOnce ==
    /\ [](/\ \A i \in 1..Len(outbound) : IsNotice(outbound[i]) => (i = 1 /\ pendingAtListen)
          /\ (pendingAtListen /\ inbound >= 1) =>
                (/\ outbound # <<>>
                 /\ IsNotice(outbound[1])
                 /\ origin[1] = 1
                 /\ delayedInitializationError = NoError))
    /\ [][(pc = "listening" /\ delayedInitializationError = NoError)
            => delayedInitializationError' = NoError]_vars

C2_Witness ==
    /\ pendingAtListen
    /\ inbound = 2
    /\ Len(outbound) = 3
    /\ IsNotice(outbound[1])

\* C3: when the start-up refresh command does not exit 0, a pending
\* initialization failure is recorded and the initializationFailed message is
\* the first outgoing message once a request has arrived.
C3_RefreshFailureReported ==
    (pc = "listening" /\ refresh \in {"nonzero", "spawnError"})
        => /\ pendingAtListen
           /\ (inbound >= 1 /\ outbound # <<>>) => IsNotice(outbound[1])

\* C4: an installPackage request for a file with no package.json in any
\* directory above it and with no root path gets exactly one response, with
\* success false and the fixed message, and runs no external command.
C4_NoProjectRoot ==
    (/\ LastWasMessage
     /\ lastStep.req.kind = "installPackage"
     /\ Ancestors(lastStep.req.fileName) \cap lastStep.fs = {}
     /\ lastStep.req.projectRootPath = NoPath)
        => /\ lastStep.execCalls = <<>>
           /\ Replies(lastStep.sent) =
                 <<[kind |-> ActionPackageInstalled, projectName |-> lastStep.req.projectName,
                    success |-> FALSE, message |-> NoRootMessage]>>

C4_Witness ==
    /\ LastWasMessage
    /\ lastStep.req.kind = "installPackage"
    /\ Ancestors(lastStep.req.fileName) \cap lastStep.fs = {}
    /\ lastStep.req.projectRootPath = NoPath
    /\ Len(lastStep.sent) = 2

\* C5: the messages on the outbound channel are in the order of the requests
\* that caused them: a message caused by an earlier request comes first, two
\* answers never come from one request, the initializationFailed message
\* comes before every answer, and the answer to an installPackage request
\* that was just handled is the last message and names its package.
C5_ResponsesInRequestOrder ==
    /\ \A i, j \in 1..Len(outbound) :
          i < j => /\ origin[i] <= origin[j]
                   /\ ~IsNotice(outbound[j])
                   /\ ~IsNotice(outbound[i]) => origin[i] < origin[j]
    /\ \A i \in 1..Len(outbound) : origin[i] <= inbound
    /\ (/\ LastWasMessage
        /\ lastStep.req.kind = "installPackage"
        /\ lastStep.thrown = NoThrow
        /\ peerUp)
          => /\ outbound # <<>>
             /\ origin[Len(outbound)] = inbound
             /\ outbound[Len(outbound)].kind = ActionPackageInstalled
             /\ lastStep.execCalls # <<>>
                   => outbound[Len(outbound)].message[2] = lastStep.req.packageName

C5_Witness ==
    /\ Len(outbound) = 3
    /\ IsNotice(outbound[1])
    /\ outbound[2].kind = ActionPackageInstalled
    /\ outbound[2].message = <<"Package", "pkgA", "installed.">>
    /\ outbound[3].kind = ActionPackageInstalled
    /\ outbound[3].message = <<"There was an error installing", "pkgB", ".">>
    /\ origin = <<1, 1, 2>>

\* C6: after a request of an unknown kind the process has terminated.
C6_UnknownKindIsFatal == unknownSeen => exited

C8_ExecutorNeverThrows ==
    lastStep.execCalls # <<>>
        => /\ lastStep.thrown = NoThrow
           /\ LastWasMessage => Replies(lastStep.sent) # <<>>

\* C9: execFileSyncAndLog returns false when the command exits 0 and true
\* when it exits non-zero, and when the log is enabled the log holds a line
\* with the captured output: stdout on success, stdout and stderr on failure.
C9_ExecutorResultAndLog ==
    (lastStep.execCalls # <<>> /\ lastStep.run.outcome.kind \in {"exit0", "nonzero"})
        => /\ lastStep.returned = <<lastStep.run.outcome.kind = "nonzero">>
           /\ (logFile # Undefined /\ ~disconnected) =>
                \E i \in 1..Len(logLines) :
                    IF lastStep.run.outcome.kind = "exit0"
                    THEN /\ logLines[i][1] = "Succeeded. stdout:"
                         /\ Contains(logLines[i], lastStep.run.outcome.stdout)
                    ELSE /\ logLines[i][1] = "Failed. stdout:"
                         /\ Contains(logLines[i], lastStep.run.outcome.stdout)
                         /\ Contains(logLines[i], lastStep.run.outcome.stderr)

C9_Witness ==
    /\ LastWasMessage
    /\ lastStep.run.outcome.kind = "nonzero"
    /\ lastStep.returned = <<TRUE>>
    /\ logFile # Undefined
    /\ ~disconnected
    /\ Len(logLines) >= 6

\* C10: once a write to the log file has failed the log is disabled; a
\* disabled log stays disabled and a handler that starts with it disabled
\* writes no line; writeLine throws nothing, so the handler in which the
\* write failed still answers its request.
C10_LoggerDisablesItself ==
    /\ [](writeFailed => logFile = Undefined)
    /\ [][logFile = Undefined =>
            (logFile' = Undefined /\ (logLines' = <<>> \/ logLines' = logLines))]_vars
    /\ [][(logFile # Undefined /\ logFile' = Undefined) => writeFailed']_vars
    /\ []((LastWasMessage /\ lastStep.req.kind \in KnownKinds /\ lastStep.thrown = NoThrow)
            => Replies(lastStep.sent) # <<>>)

C10_Witness ==
    /\ writeFailed
    /\ logFile = Undefined
    /\ LastWasMessage
    /\ lastStep.run.outcome.kind = "nonzero"
    /\ logLines = <<>>
    /\ Replies(lastStep.sent) # <<>>

\* C11: the loader throws nothing; a missing file gives the empty mapping; a
\* file that is not JSON or is JSON of another shape gives the empty mapping
\* and, with logging enabled, an error line in the log; a file {"entries": M}
\* gives exactly M.
C11_LoaderDegradesToEmpty ==
    pc = "loaded" =>
        /\ lastStep.thrown = NoThrow
        /\ registryFile.state = "missing" => typesRegistry = EmptyMap
        /\ registryFile.state \in {"malformed", "null", "noEntries"} =>
              /\ typesRegistry = EmptyMap
              /\ logFile # Undefined => logLines = <<<<"Error when loading types registry file">>>>
        /\ registryFile.state = "json" => typesRegistry = registryFile.entries

\* C12: a package-manager path with a space and without a leading quote is
\* used wrapped in quotes; any other path is used as it is; the path used,
\* also the default one, is left as it is by the same rule.
C12_QuotingRule ==
    pc = "quoted" =>
        /\ npmLocation # NoPath =>
              npmPath = IF /\ \E i \in 1..Len(npmLocation) : npmLocation[i] = Space
                           /\ (npmLocation = <<>> \/ npmLocation[1] # Quote)
                        THEN <<Quote>> \o npmLocation \o <<Quote>>
                        ELSE npmLocation
        /\ npmLocation = NoPath =>
              npmPath \in {getDefaultNPMLocation(p) : p \in ProcessNames}
        /\ resolveNpmPath(npmPath, Argv0) = npmPath

C12_Witness ==
    /\ pc = "quoted"
    /\ npmLocation = <<"n", Space, "n">>
    /\ npmPath = <<Quote, "n", Space, "n", Quote>>

\* C13: the resolver returns the deepest directory with a manifest among the
\* directories from the one holding the file up to the root, and nothing when
\* none of them has a manifest.
C13_NearestManifest ==
    lastStep.handler = "resolve" =>
        LET hits == Ancestors(lastStep.req.fileName) \cap lastStep.fs
        IN  /\ Len(lastStep.returned) = 1
            /\ hits = {} => lastStep.returned[1] = NoPath
            /\ hits # {} =>
                  /\ lastStep.returned[1] \in hits
                  /\ \A h \in hits : Len(h) <= Len(lastStep.returned[1])

C13_Witness ==
    /\ lastStep.handler = "resolve"
    /\ lastStep.req.fileName = <<"a", "b", "a", "file.ts">>
    /\ lastStep.fs = {<<"a">>, <<"a", "b">>}
    /\ lastStep.returned = <<<<"a", "b">>>>

\* C14: the handling of a request of a known kind that found a failure pending
\* sent the initializationFailed message first, cleared the pending value, and
\* then sent the request's own response.
C14_FirstRequestWhilePending ==
    (LastWasMessage /\ lastStep.pendingBefore /\ lastStep.req.kind \in KnownKinds)
        => /\ lastStep.thrown = NoThrow
           /\ delayedInitializationError = NoError
           /\ Len(lastStep.sent) = 2
           /\ IsNotice(lastStep.sent[1])
           /\ ~IsNotice(lastStep.sent[2])

\* C15: once the process listens no step changes the registry, and every
\* typesRegistry response on the channel carries the registry the process
\* holds.
C15_RegistryImmutable ==
    /\ [][pc = "listening" => typesRegistry' = typesRegistry]_vars
    /\ [](\A i \in 1..Len(outbound) :
            outbound[i].kind = EventTypesRegistry => outbound[i].typesRegistry = typesRegistry)

C15_Witness ==
    /\ inbound = 2
    /\ Len(outbound) = 2
    /\ outbound[1].kind = ActionPackageInstalled
    /\ outbound[2].kind = EventTypesRegistry
    /\ outbound[2].typesRegistry = LodashMap
    /\ origin[2] = 2

\* C16: an installPackage request runs its command in the nearest directory
\* above the file that has a manifest, and in the root path of the request
\* only when there is no such directory; when either exists the command is
\* run there.
C16_WorkingDirectory ==
    (LastWasMessage /\ lastStep.req.kind = "installPackage") =>
        LET hits == Ancestors(lastStep.req.fileName) \cap lastStep.fs
            expected == IF hits # {}
                        THEN CHOOSE h \in hits : \A g \in hits : Len(g) <= Len(h)
                        ELSE lastStep.req.projectRootPath
        IN  expected # NoPath =>
                /\ lastStep.execCalls # <<>>
                /\ \A i \in 1..Len(lastStep.execCalls) : lastStep.execCalls[i].cwd = expected

C16_Witness ==
    /\ LastWasMessage
    /\ lastStep.req.kind = "installPackage"
    /\ lastStep.req.projectRootPath = <<"c">>
    /\ <<"a", "b">> \in lastStep.fs
    /\ lastStep.execCalls # <<>>
    /\ lastStep.execCalls[1].cwd = <<"a", "b">>

\* C17: an installPackage request whose working directory is known runs the
\* install command once, for the one package, and sends one response whose
\* success flag says whether the command exited 0, with the sentence that
\* goes with it.
C17_OneAttemptOneResponse ==
    (/\ LastWasMessage
     /\ lastStep.req.kind = "installPackage"
     /\ (Ancestors(lastStep.req.fileName) \cap lastStep.fs # {}
            \/ lastStep.req.projectRootPath # NoPath))
        => /\ Len(lastStep.execCalls) = 1
           /\ lastStep.execCalls[1].args = <<"install", "--ignore-scripts", lastStep.req.packageName>>
           /\ Replies(lastStep.sent) =
                <<[kind |-> ActionPackageInstalled, projectName |-> lastStep.req.projectName,
                   success |-> lastStep.run.outcome.kind = "exit0",
                   message |-> IF lastStep.run.outcome.kind = "exit0"
                               THEN <<"Package", lastStep.req.packageName, "installed.">>
                               ELSE <<"There was an error installing",
                                      lastStep.req.packageName, ".">>]>>

\* C18: a request that finds a failure pending begins by sending the
\* initializationFailed message; when that send throws, the pending value
\* stays set and the request is not dispatched, so the next request sends it
\* again; the pending value is cleared only when the send has returned.
C18_ClearedAfterSendReturns ==
    /\ (LastWasMessage /\ lastStep.pendingBefore) =>
          /\ lastStep.sent # <<>>
          /\ IsNotice(lastStep.sent[1])
          /\ (lastStep.thrown = "SendError" /\ Len(lastStep.sent) = 1) =>
                /\ delayedInitializationError # NoError
                /\ lastStep.execCalls = <<>>
    /\ (pc = "listening" /\ pendingAtListen /\ delayedInitializationError = NoError) =>
          /\ outbound # <<>>
          /\ IsNotice(outbound[1])

C18_Witness ==
    /\ LastWasMessage
    /\ lastStep.pendingBefore
    /\ inbound = 2
    /\ outbound # <<>>
    /\ IsNotice(outbound[1])
    /\ origin[1] = 2
    /\ delayedInitializationError = NoError

\* C19: a process that begins to listen with a failure pending holds the
\* content of the registry file, empty when the file is missing or cannot be
\* read, and answers a typesRegistry request with that content.
C19_RegistryLoadedDespiteFailure ==
    (pc = "listening" /\ pendingAtListen) =>
        LET onDisk == IF registryFile.state = "json" THEN registryFile.entries ELSE EmptyMap
        IN  /\ typesRegistry = onDisk
            /\ (LastWasMessage /\ lastStep.req.kind = "typesRegistry") =>
                  Replies(lastStep.sent) = <<[kind |-> EventTypesRegistry, typesRegistry |-> onDisk]>>

C19_Witness ==
    /\ pendingAtListen
    /\ registryFile.state = "json"
    /\ LastWasMessage
    /\ lastStep.req.kind = "typesRegistry"
    /\ lastStep.pendingBefore
    /\ Len(outbound) = 2
    /\ outbound[2] = [kind |-> EventTypesRegistry, typesRegistry |-> LodashMap]

\* C20: a process with a log file, whether or not its log writes fail, and a
\* process without one, given the same start-up outcome, requests and command
\* outcomes, have put the same responses on the channel and have terminated
\* alike.
C20_LoggingDoesNotInterfere ==
    pc = "listening" =>
        /\ twin.outbound = outbound
        /\ twin.exited = exited
        /\ twin.exitCode = exitCode

====
